---- MODULE Spec2Model ----
(***************************************************************************)
(* A model of bump (github.com/fergus-oakley/bump): the version tag of a   *)
(* remote git repository is read, incremented and pushed.                  *)
(*                                                                         *)
(* Strings are sequences of one-character strings, so that validation,     *)
(* parsing, formatting and the natural sort act on characters as the Go    *)
(* code does.  An error value is the sequence of its messages, outermost   *)
(* wrap first and root cause last; nil is the empty sequence.              *)
(***************************************************************************)
EXTENDS Integers, Sequences, FiniteSets, TLC

VARIABLES
    remoteRefs,   \* the references of the remote "origin" as it lists them: [kind, name]
    localTags,    \* the names of the tags of the local repository
    runs,         \* BumpVersion runs so far
    major, minor, \* the flags of the last run
    refList,      \* the references remote.List returned to the last run, in its order
    err,          \* the error the last BumpVersion (or tag) returned
    calls,        \* the repository calls the publisher made in the last run, in order
    published,    \* the Versions handed to the publisher in the last run (0 or 1)
    preLocal,     \* localTags when the last run started
    preRemote,    \* remoteRefs when the last run started
    sel,          \* the selector's last call: [called, in, out]
    inc           \* the incrementer's last call: [called, in, out]

vars == <<remoteRefs, localTags, runs, major, minor, refList, err, calls,
          published, preLocal, preRemote, sel, inc>>

(***************************************************************************)
(* Bounds of the model.                                                    *)
(***************************************************************************)
MaxRuns == 2
MaxRefs == 2
MaxLen == 3
MaxComp == 3

(***************************************************************************)
(* Characters and strings.                                                 *)
(***************************************************************************)
Digits == {"0", "1", "2", "3", "4", "5", "6", "7", "8", "9"}

IsDigit(c) == c \in Digits

DigitVal(c) ==
    CASE c = "0" -> 0 [] c = "1" -> 1 [] c = "2" -> 2 [] c = "3" -> 3
      [] c = "4" -> 4 [] c = "5" -> 5 [] c = "6" -> 6 [] c = "7" -> 7
      [] c = "8" -> 8 [] c = "9" -> 9

DigitChar(n) ==
    CASE n = 0 -> "0" [] n = 1 -> "1" [] n = 2 -> "2" [] n = 3 -> "3"
      [] n = 4 -> "4" [] n = 5 -> "5" [] n = 6 -> "6" [] n = 7 -> "7"
      [] n = 8 -> "8" [] n = 9 -> "9"

\* The byte value of a character (the characters the model's names use).
CharCode(c) ==
    CASE c = "." -> 46
      [] IsDigit(c) -> 48 + DigitVal(c)
      [] c = "a" -> 97 [] c = "c" -> 99 [] c = "i" -> 105 [] c = "m" -> 109
      [] c = "n" -> 110 [] c = "r" -> 114 [] c = "v" -> 118

\* Go's < on strings: bytewise lexicographic, a proper prefix first.
RECURSIVE StrLess(_, _)
StrLess(a, b) ==
    IF b = <<>> THEN FALSE
    ELSE IF a = <<>> THEN TRUE
    ELSE IF Head(a) = Head(b) THEN StrLess(Tail(a), Tail(b))
    ELSE CharCode(Head(a)) < CharCode(Head(b))

AllDigits(s) == \A i \in 1..Len(s) : IsDigit(s[i])

\* strings.Split(s, "."): the pieces between the dots, empty pieces kept.
RECURSIVE SplitDots(_, _)
SplitDots(s, cur) ==
    IF s = <<>> THEN <<cur>>
    ELSE IF Head(s) = "." THEN <<cur>> \o SplitDots(Tail(s), <<>>)
    ELSE SplitDots(Tail(s), Append(cur, Head(s)))

\* strings.TrimPrefix(version, "v")
TrimPrefixV(s) == IF s # <<>> /\ Head(s) = "v" THEN Tail(s) ELSE s

(***************************************************************************)
(* Errors.                                                                 *)
(***************************************************************************)
nil == <<>>
ErrVersionFormat == <<"ErrVersionFormat">>
ErrNoTagsFound == <<"ErrNoTagsFound">>
ErrNoVersionTagsFound == <<"ErrNoVersionTagsFound">>
ErrCannotIncrementMajAndMin == <<"ErrCannotIncrementMajAndMin">>

\* errors.Wrap(e, msg): a new error carrying msg and e.
Wrap(e, msg) == <<msg>> \o e

\* The root cause of an error (errors.Cause).
Cause(e) == e[Len(e)]

\* The errors a returned error carries: every element of its chain.
Carries(e, c) == \E i \in 1..Len(e) : e[i] = c

(***************************************************************************)
(* The Version value, the validator and the parser.                        *)
(***************************************************************************)
Version(M, m, b) == [majorRelease |-> M, minorRelease |-> m, bugFixRelease |-> b]

\* Version{}: Go's zero value.
ZeroVersion == Version(0, 0, 0)

\* validateVersionFormat: ^v[0-9]+\.[0-9]+\.[0-9]+$
validateVersionFormat(version) ==
    IF /\ version # <<>>
       /\ Head(version) = "v"
       /\ LET parts == SplitDots(Tail(version), <<>>) IN
            /\ Len(parts) = 3
            /\ \A i \in 1..3 : parts[i] # <<>> /\ AllDigits(parts[i])
    THEN nil
    ELSE ErrVersionFormat

\* The digits of a run without its leading zeros (empty for zero).
RECURSIVE StripZeros(_)
StripZeros(ds) ==
    IF ds # <<>> /\ Head(ds) = "0" THEN StripZeros(Tail(ds)) ELSE ds

\* The value of a run of digits.
RECURSIVE DigitsValue(_)
DigitsValue(ds) ==
    IF ds = <<>> THEN 0
    ELSE 10 * DigitsValue(SubSeq(ds, 1, Len(ds) - 1)) + DigitVal(ds[Len(ds)])

\* math.MaxInt64, the greatest int of a 64-bit build, in decimal.
MaxIntDigits ==
    <<"9", "2", "2", "3", "3", "7", "2", "0", "3", "6",
      "8", "5", "4", "7", "7", "5", "8", "0", "7">>

\* Whether the run of digits is a number an int cannot hold.
ExceedsMaxInt(s) ==
    \/ Len(s) > Len(MaxIntDigits)
    \/ Len(s) = Len(MaxIntDigits) /\ StrLess(MaxIntDigits, s)

OutOfRange(ds) == ExceedsMaxInt(StripZeros(ds))

\* strconv.Atoi on an unsigned chunk: a syntax error for anything but digits, a
\* range error for a number beyond the int range.
Atoi(s) ==
    IF s = <<>> \/ ~AllDigits(s) THEN [val |-> 0, err |-> <<"strconv.ErrSyntax">>]
    ELSE IF OutOfRange(s) THEN [val |-> 0, err |-> <<"strconv.ErrRange">>]
    ELSE [val |-> DigitsValue(StripZeros(s)), err |-> nil]

\* CastToVersion
\* The loop of CastToVersion over the split elements: the first conversion
\* error ends it.
RECURSIVE ConvertElements(_, _)
RECURSIVE ConvertNext(_, _, _)
ConvertElements(stringElements, intElements) ==
    IF stringElements = <<>> THEN [ints |-> intElements, err |-> nil]
    ELSE ConvertNext(stringElements, intElements, Atoi(Head(stringElements)))

ConvertNext(stringElements, intElements, i) ==
    IF i.err # nil THEN [ints |-> <<>>, err |-> i.err]
    ELSE ConvertElements(Tail(stringElements), Append(intElements, i.val))

CastConverted(c) ==
    IF c.err # nil THEN [v |-> ZeroVersion, err |-> c.err]
    ELSE [v |-> Version(c.ints[1], c.ints[2], c.ints[3]), err |-> nil]

CastValidated(version, formatErr) ==
    IF formatErr # nil THEN [v |-> ZeroVersion, err |-> formatErr]
    ELSE CastConverted(ConvertElements(SplitDots(TrimPrefixV(version), <<>>), <<>>))

CastToVersion(version) == CastValidated(version, validateVersionFormat(version))

\* fmt's %d of a non-negative int.
RECURSIVE Itoa(_)
Itoa(n) ==
    IF n < 10 THEN <<DigitChar(n)>>
    ELSE Itoa(n \div 10) \o <<DigitChar(n % 10)>>

\* (*Version).String
String(v) ==
    <<"v">> \o Itoa(v.majorRelease) \o <<".">> \o Itoa(v.minorRelease)
            \o <<".">> \o Itoa(v.bugFixRelease)

incrementMajor(v) == Version(v.majorRelease + 1, 0, 0)

\* incrementMinor without the reset of the bugfix component.
incrementMinorNoReset(v) == Version(v.majorRelease, v.minorRelease + 1, v.bugFixRelease)
incrementMinor(v) == Version(v.majorRelease, v.minorRelease + 1, 0)

incrementBugFix(v) == Version(v.majorRelease, v.minorRelease, v.bugFixRelease + 1)

\* incrementVersion: the argument is a copy, so the caller's Version is untouched.
incrementVersion(latestVersion, mj, mn) ==
    IF mj /\ mn THEN [v |-> latestVersion, err |-> ErrCannotIncrementMajAndMin]
    ELSE IF mj THEN [v |-> incrementMajor(latestVersion), err |-> nil]
    ELSE IF mn THEN [v |-> incrementMinor(latestVersion), err |-> nil]
    ELSE [v |-> incrementBugFix(latestVersion), err |-> nil]

(***************************************************************************)
(* The natural sort (github.com/facette/natsort) and the selector.         *)
(***************************************************************************)
\* The length of the longest prefix of s whose characters are all digits (d) or
\* all non-digits (~d).
RECURSIVE RunLen(_, _)
RunLen(s, d) ==
    IF s = <<>> \/ IsDigit(Head(s)) # d THEN 0 ELSE 1 + RunLen(Tail(s), d)

\* chunkify: regexp (\d+|\D+), FindAllString: the maximal runs, in order.
RECURSIVE chunkify(_)
chunkify(x) ==
    IF x = <<>> THEN <<>>
    ELSE LET k == RunLen(x, IsDigit(Head(x))) IN
           <<SubSeq(x, 1, k)>> \o chunkify(SubSeq(x, k + 1, Len(x)))

\* natsort.Compare from chunk i on: whether a precedes b.
RECURSIVE CompareFrom(_, _, _)
RECURSIVE CompareChunk(_, _, _, _, _)
CompareFrom(chunksA, chunksB, i) ==
    IF i > Len(chunksA) THEN FALSE
    ELSE IF i > Len(chunksB) THEN FALSE
    ELSE CompareChunk(chunksA, chunksB, i, Atoi(chunksA[i]), Atoi(chunksB[i]))

\* One round of Compare's loop; a and b are the chunks' conversions.
CompareChunk(chunksA, chunksB, i, a, b) ==
    IF (a.err = nil /\ b.err = nil /\ a.val # b.val)
    THEN a.val < b.val
    ELSE IF (a.err # nil \/ b.err # nil) /\ chunksA[i] # chunksB[i]
    THEN StrLess(chunksA[i], chunksB[i])
    ELSE IF i = Len(chunksA) THEN TRUE
    ELSE IF i = Len(chunksB) THEN FALSE
    ELSE CompareFrom(chunksA, chunksB, i + 1)

Compare(a, b) == CompareFrom(chunkify(a), chunkify(b), 1)

Swap(l, i, j) == [l EXCEPT ![i] = l[j], ![j] = l[i]]

\* sort.Sort on fewer than 12 elements is an insertion sort with Less = Compare.
RECURSIVE InsertInner(_, _)
InsertInner(l, j) ==
    IF j > 1 /\ Compare(l[j], l[j - 1]) THEN InsertInner(Swap(l, j, j - 1), j - 1)
    ELSE l

RECURSIVE InsertionSort(_, _)
InsertionSort(l, i) ==
    IF i > Len(l) THEN l ELSE InsertionSort(InsertInner(l, i), i + 1)

natsortSort(l) == InsertionSort(l, 2)

IsVersionName(t) == validateVersionFormat(t) = nil

\* getLatestVersionTag
Last(l) == l[Len(l)]

LatestOf(latestVersion) ==
    IF latestVersion.err # nil THEN [v |-> ZeroVersion, err |-> latestVersion.err]
    ELSE [v |-> latestVersion.v, err |-> nil]

LatestOfVersions(versionList) ==
    IF Len(versionList) = 0 THEN [v |-> ZeroVersion, err |-> ErrNoVersionTagsFound]
    ELSE LatestOf(CastToVersion(Last(natsortSort(versionList))))

\* getLatestVersionTag
getLatestVersionTag(tagList) == LatestOfVersions(SelectSeq(tagList, IsVersionName))

(***************************************************************************)
(* The repository collaborator (go-git) and the publisher.                 *)
(***************************************************************************)
TagRef(n) == [kind |-> "tag", name |-> n]
BranchRef(n) == [kind |-> "branch", name |-> n]

\* ReferenceName.Short: the name without its refs/tags/ or refs/heads/ prefix.
Short(r) == r.name

RemoteTagNames(refs) == {refs[i].name : i \in {j \in 1..Len(refs) : refs[j].kind = "tag"}}

\* The outcomes of the collaborator's calls in one run: the set of the calls that
\* fail when made.  A run stops at its first failed call, except that a failed
\* Push is followed by DeleteTag, so these are all the distinguishable outcomes.
Faults ==
    {{}, {"Remote"}, {"List"}, {"Head"}, {"CreateTag"}, {"Push"}, {"Push", "DeleteTag"}}

\* getRemoteGitTags; refs is what remote.List returns, in its order.
getRemoteGitTags(refs, flt) ==
    IF "Remote" \in flt
    THEN [tagList |-> <<>>, err |-> Wrap(<<"RemoteErr">>, "unable to access remote repo")]
    ELSE IF "List" \in flt
    THEN [tagList |-> <<>>,
          err |-> Wrap(<<"ListErr">>, "unable to list references from remote repo")]
    ELSE IF Len(refs) = 0
    THEN [tagList |-> <<>>, err |-> ErrNoTagsFound]
    ELSE [tagList |-> [i \in 1..Len(refs) |-> Short(refs[i])], err |-> nil]

\* A CreateTag that does not refuse a name the local repository already holds.
CreateTagOverwrites(local, name, flt) == "CreateTag" \in flt

\* Whether repo.CreateTag fails: the name exists locally (ErrTagExists), or the
\* creation fails otherwise.
CreateTagFails(local, name, flt) == name \in local \/ "CreateTag" \in flt

\* A rollback that leaves the new tag in the local repository.
DeleteTagKeeps(local, name) == local

\* repo.DeleteTag, when it succeeds.
DeleteTag(local, name) == local \ {name}

\* The least name of a non-empty set of names, in string order.
LeastName(S) == CHOOSE x \in S : \A y \in S : x = y \/ StrLess(x, y)

\* The remote's references after a push of refs/tags/*:refs/tags/*: every local
\* tag the remote does not hold is added.
RECURSIVE PushNew(_, _, _)
PushNew(refs, local, new) ==
    IF new = {} THEN refs
    ELSE PushNew(Append(refs, TagRef(LeastName(new))), local, new \ {LeastName(new)})

Pushed(refs, local) == PushNew(refs, local, local \ RemoteTagNames(refs))

Call(op, ok) == [op |-> op, ok |-> ok]

\* tag, from the name of the new tag on.
tagNamed(local, remote, name, flt) ==
    IF "Head" \in flt
    THEN [err |-> Wrap(<<"HeadErr">>, "unable to get HEAD from the opened repo"),
          local |-> local, remote |-> remote,
          calls |-> <<Call("Head", FALSE)>>]
    ELSE IF CreateTagFails(local, name, flt)
    THEN [err |-> Wrap(IF name \in local THEN <<"ErrTagExists">> ELSE <<"CreateErr">>,
                       "unable to create tag"),
          local |-> local, remote |-> remote,
          calls |-> <<Call("Head", TRUE), Call("CreateTag", FALSE)>>]
    ELSE IF "Push" \in flt
    THEN IF "DeleteTag" \in flt
         THEN [err |-> Wrap(<<"DeleteErr">>,
                            "push failed, rollback failed, may require manual cleanup"),
               local |-> local \cup {name}, remote |-> remote,
               calls |-> <<Call("Head", TRUE), Call("CreateTag", TRUE),
                           Call("Push", FALSE), Call("DeleteTag", FALSE)>>]
         ELSE [err |-> Wrap(<<"PushErr">>, "unable to push new tag to remote repo"),
               local |-> DeleteTag(local \cup {name}, name), remote |-> remote,
               calls |-> <<Call("Head", TRUE), Call("CreateTag", TRUE),
                           Call("Push", FALSE), Call("DeleteTag", TRUE)>>]
    ELSE [err |-> nil,
          local |-> local \cup {name}, remote |-> Pushed(remote, local \cup {name}),
          calls |-> <<Call("Head", TRUE), Call("CreateTag", TRUE), Call("Push", TRUE)>>]

\* tag: the publisher.
tag(local, remote, newTagVersion, flt) ==
    tagNamed(local, remote, String(newTagVersion), flt)

NotCalled == [called |-> FALSE]

SelCall(tagList, latest) == [called |-> TRUE, in |-> tagList, out |-> latest]

IncCall(v, mj, mn, incremented) ==
    [called |-> TRUE, in |-> [v |-> v, major |-> mj, minor |-> mn], out |-> incremented]

\* A run that ends before the publisher is called.
Ended(local, remote, e, selCall, incCall) ==
    [err |-> e, sel |-> selCall, inc |-> incCall,
     local |-> local, remote |-> remote, calls |-> <<>>, published |-> <<>>]

\* A run that ends with the publisher's call; t is what tag returned.
Tagged(t, v, selCall, incCall) ==
    [err |-> t.err, sel |-> selCall, inc |-> incCall,
     local |-> t.local, remote |-> t.remote, calls |-> t.calls, published |-> <<v>>]

\* BumpVersion from the incrementer's return on.
BumpIncremented(local, remote, flt, selCall, incCall) ==
    IF incCall.out.err # nil
    THEN Ended(local, remote, incCall.out.err, selCall, incCall)
    ELSE Tagged(tag(local, remote, incCall.out.v, flt), incCall.out.v, selCall, incCall)

\* BumpSelected with the bootstrap case taken for an error like any other.
BumpSelectedNoBootstrap(local, remote, mj, mn, flt, selCall) ==
    IF selCall.out.err # nil
    THEN Ended(local, remote,
               Wrap(selCall.out.err, "unable to get latest version tag from the tag list"),
               selCall, NotCalled)
    ELSE BumpIncremented(local, remote, flt, selCall,
                         IncCall(selCall.out.v, mj, mn,
                                 incrementVersion(selCall.out.v, mj, mn)))

\* BumpVersion from the selector's return on.
BumpSelected(local, remote, mj, mn, flt, selCall) ==
    IF selCall.out.err = ErrNoVersionTagsFound
    THEN Tagged(tag(local, remote, ZeroVersion, flt), ZeroVersion, selCall, NotCalled)
    ELSE IF selCall.out.err # nil
    THEN Ended(local, remote,
               Wrap(selCall.out.err, "unable to get latest version tag from the tag list"),
               selCall, NotCalled)
    ELSE BumpIncremented(local, remote, flt, selCall,
                         IncCall(selCall.out.v, mj, mn,
                                 incrementVersion(selCall.out.v, mj, mn)))

\* BumpVersion from getRemoteGitTags' return on.
BumpListed(local, remote, mj, mn, flt, got) ==
    IF got.err # nil
    THEN Ended(local, remote, Wrap(got.err, "Unable to get remote git tags from the repo"),
               NotCalled, NotCalled)
    ELSE BumpSelected(local, remote, mj, mn, flt,
                      SelCall(got.tagList, getLatestVersionTag(got.tagList)))

\* BumpVersion, as a function of the repository and of the collaborator's outcomes.
BumpVersionRun(local, remote, mj, mn, flt) ==
    BumpListed(local, remote, mj, mn, flt, getRemoteGitTags(remote, flt))

(***************************************************************************)
(* The names and references of the model.                                  *)
(***************************************************************************)
Name_v0_0_0 == <<"v", "0", ".", "0", ".", "0">>
Name_v0_0_5 == <<"v", "0", ".", "0", ".", "5">>
Name_v0_0_25 == <<"v", "0", ".", "0", ".", "2", "5">>
Name_v5_0_9 == <<"v", "5", ".", "0", ".", "9">>
Name_v20_0_0 == <<"v", "2", "0", ".", "0", ".", "0">>
Name_v9_9_9 == <<"v", "9", ".", "9", ".", "9">>
Name_rc == <<"r", "c">>
Name_main == <<"m", "a", "i", "n">>
Name_0_0_0 == <<"0", ".", "0", ".", "0">>
Name_v__1 == <<"v", ".", ".", "1">>

Zeros(n) == [i \in 1..n |-> "0"]

\* v10000000000000000000.0.0 and v30000000000000000000.0.0: major components of
\* twenty digits, beyond the int range.
Name_vBig1 == <<"v", "1">> \o Zeros(19) \o <<".", "0", ".", "0">>
Name_vBig3 == <<"v", "3">> \o Zeros(19) \o <<".", "0", ".", "0">>

RefPool ==
    {TagRef(Name_v5_0_9), TagRef(Name_vBig1), TagRef(Name_rc),
     BranchRef(Name_main), BranchRef(Name_v9_9_9)}

SelPool ==
    {Name_v0_0_5, Name_v0_0_25, Name_v5_0_9, Name_v20_0_0, Name_vBig3,
     Name_main, Name_0_0_0, Name_v__1, <<>>}

\* The sequences without repetition of at most n elements of S.
Arrangements(S, n) ==
    {s \in UNION {[1..k -> S] : k \in 0..n} :
       \A i \in 1..Len(s), j \in 1..Len(s) : i # j => s[i] # s[j]}

(***************************************************************************)
(* The tool: BumpVersion runs against a remote and a local repository.     *)
(***************************************************************************)
Init ==
    /\ remoteRefs \in Arrangements(RefPool, MaxRefs)
    /\ localTags = {}
    /\ runs = 0
    /\ major = FALSE
    /\ minor = FALSE
    /\ refList = <<>>
    /\ err = nil
    /\ calls = <<>>
    /\ published = <<>>
    /\ preLocal = localTags
    /\ preRemote = remoteRefs
    /\ sel = NotCalled
    /\ inc = NotCalled

\* The state after a run that ended as out.
Ran(out) ==
    /\ err' = out.err
    /\ calls' = out.calls
    /\ published' = out.published
    /\ sel' = out.sel
    /\ inc' = out.inc
    /\ localTags' = out.local
    /\ remoteRefs' = out.remote

BumpVersion ==
    /\ runs < MaxRuns
    /\ \E mj \in BOOLEAN, mn \in BOOLEAN, flt \in Faults :
         /\ major' = mj
         /\ minor' = mn
         /\ refList' = IF flt \cap {"Remote", "List"} = {} THEN remoteRefs ELSE <<>>
         /\ Ran(BumpVersionRun(localTags, remoteRefs, mj, mn, flt))
    /\ preLocal' = localTags
    /\ preRemote' = remoteRefs
    /\ runs' = runs + 1

Next == BumpVersion

Spec == Init /\ [][Next]_vars

(***************************************************************************)
(* The selector alone, on lists of names in every order.                   *)
(***************************************************************************)
NameLists == UNION {[1..n -> SelPool] : n \in 0..MaxLen}

Idle ==
    /\ remoteRefs = <<>>
    /\ localTags = {}
    /\ runs = 0
    /\ major = FALSE
    /\ minor = FALSE
    /\ refList = <<>>
    /\ err = nil
    /\ calls = <<>>
    /\ published = <<>>
    /\ preLocal = {}
    /\ preRemote = <<>>

InitSel ==
    /\ Idle
    /\ inc = NotCalled
    /\ \E l \in NameLists : sel = [called |-> FALSE, in |-> l]

ApplySelector ==
    /\ ~sel.called
    /\ sel' = [called |-> TRUE, in |-> sel.in, out |-> getLatestVersionTag(sel.in)]
    /\ UNCHANGED <<remoteRefs, localTags, runs, major, minor, refList, err, calls,
                   published, preLocal, preRemote, inc>>

NextSel == ApplySelector

SpecSel == InitSel /\ [][NextSel]_vars

(***************************************************************************)
(* The incrementer alone, on every Version and pair of flags.              *)
(***************************************************************************)
Versions == {Version(M, m, b) : M \in 0..MaxComp, m \in 0..MaxComp, b \in 0..MaxComp}

InitInc ==
    /\ Idle
    /\ sel = NotCalled
    /\ \E v \in Versions, mj \in BOOLEAN, mn \in BOOLEAN :
         inc = [called |-> FALSE, in |-> [v |-> v, major |-> mj, minor |-> mn]]

ApplyIncrementer ==
    /\ ~inc.called
    /\ inc' = [called |-> TRUE, in |-> inc.in,
               out |-> incrementVersion(inc.in.v, inc.in.major, inc.in.minor)]
    /\ UNCHANGED <<remoteRefs, localTags, runs, major, minor, refList, err, calls,
                   published, preLocal, preRemote, sel>>

NextInc == ApplyIncrementer

SpecInc == InitInc /\ [][NextInc]_vars

(***************************************************************************)
(* What the properties below speak of.                                     *)
(***************************************************************************)
\* The last run got the remote's listing (refList): neither repo.Remote nor
\* remote.List failed.
Listed == runs > 0 /\ ~Carries(err, "RemoteErr") /\ ~Carries(err, "ListErr")

\* The last run called the publisher.
PublisherCalled == runs > 0 /\ published # <<>>

\* No call the publisher made in the last run failed.
NoCallFailed == \A i \in 1..Len(calls) : calls[i].ok

NothingPublished == localTags = preLocal /\ remoteRefs = preRemote

ListedNames == {refList[i].name : i \in 1..Len(refList)}

IsTagRef(r) == r.kind = "tag"

\* The names of the tags among the listed references, in the listing's order.
ListedTagNames ==
    [i \in 1..Len(SelectSeq(refList, IsTagRef)) |-> SelectSeq(refList, IsTagRef)[i].name]

\* A run of digits as a number written without leading zeros.
Canon(ds) == IF StripZeros(ds) = <<>> THEN <<"0">> ELSE StripZeros(ds)

\* The order of the numbers two canonical runs of digits denote, of any size.
NumLess(x, y) == Len(x) < Len(y) \/ (Len(x) = Len(y) /\ StrLess(x, y))

\* The components (major, minor, bugfix) of a version-formatted name.
Components(n) ==
    [i \in 1..3 |-> Canon(SplitDots(Tail(n), <<>>)[i])]

\* The order of two triples of components: by major, then minor, then bugfix.
TripleLess(x, y) ==
    \/ NumLess(x[1], y[1])
    \/ x[1] = y[1] /\ NumLess(x[2], y[2])
    \/ x[1] = y[1] /\ x[2] = y[2] /\ NumLess(x[3], y[3])

VersionComponents(v) ==
    <<Itoa(v.majorRelease), Itoa(v.minorRelease), Itoa(v.bugFixRelease)>>

VersionNamesOf(l) == {l[i] : i \in {j \in 1..Len(l) : IsVersionName(l[j])}}

\* The version-formatted names of the listing the last run read.
ListedVersionNames == {n \in ListedNames : IsVersionName(n)}

\* v is the maximum of the version-formatted names of S.
IsMaxOf(v, S) ==
    /\ \E n \in S : Components(n) = VersionComponents(v)
    /\ \A n \in S : ~TripleLess(VersionComponents(v), Components(n))

Reorderings(l) ==
    {[i \in 1..Len(l) |-> l[p[i]]] : p \in Permutations(1..Len(l))}

HeadOK == Call("Head", TRUE)
CreateOK == Call("CreateTag", TRUE)

(***************************************************************************)
(* The properties.                                                         *)
(***************************************************************************)

\* C1: a run with both major and minor set returns ErrCannotIncrementMajAndMin
\* and creates no tag, locally or on the remote, whatever the remote lists (with
\* or without a version-formatted name).  Stated for the runs in which the remote
\* lists at least one reference and no call to the repository fails.
C1_BothFlagsRejected ==
    (Listed /\ major /\ minor /\ Len(refList) > 0 /\ NoCallFailed) =>
        /\ err = ErrCannotIncrementMajAndMin
        /\ NothingPublished

\* C2: incrementVersion returns (M+1, 0, 0) for major only, (M, m+1, 0) for minor
\* only, (M, m, b+1) for neither, each with no error, and the Version it was given
\* with ErrCannotIncrementMajAndMin for both.
C2_IncrementVersion ==
    inc.called =>
        LET v == inc.in.v IN
          /\ (inc.in.major /\ inc.in.minor) =>
                inc.out = [v |-> v, err |-> ErrCannotIncrementMajAndMin]
          /\ (inc.in.major /\ ~inc.in.minor) =>
                inc.out = [v |-> Version(v.majorRelease + 1, 0, 0), err |-> nil]
          /\ (~inc.in.major /\ inc.in.minor) =>
                inc.out = [v |-> Version(v.majorRelease, v.minorRelease + 1, 0),
                           err |-> nil]
          /\ (~inc.in.major /\ ~inc.in.minor) =>
                inc.out = [v |-> Version(v.majorRelease, v.minorRelease,
                                         v.bugFixRelease + 1),
                           err |-> nil]

\* A minor increment of a Version whose bugfix component is not zero.
C2_Witness ==
    /\ inc.called
    /\ inc.in.minor /\ ~inc.in.major
    /\ inc.in.v.bugFixRelease > 0
    /\ inc.out.err = nil

\* C3: getLatestVersionTag returns ErrNoVersionTagsFound, with the zero Version,
\* exactly when no element is version-formatted; otherwise it returns, with no
\* error, the maximum of the version-formatted elements by (major, minor, bugfix)
\* compared as integers, whatever the order of the list.  Stated for the lists on
\* which the selector reports no other error (a failed conversion).
C3_LatestIsMaximum ==
    (sel.called /\ sel.out.err \in {nil, ErrNoVersionTagsFound}) =>
        /\ sel.out.err = ErrNoVersionTagsFound <=> VersionNamesOf(sel.in) = {}
        /\ sel.out.err = ErrNoVersionTagsFound => sel.out.v = Version(0, 0, 0)
        /\ VersionNamesOf(sel.in) # {} =>
              /\ sel.out.err = nil
              /\ IsMaxOf(sel.out.v, VersionNamesOf(sel.in))
        /\ \A l \in Reorderings(sel.in) : getLatestVersionTag(l) = sel.out

\* C4: when the remote lists at least one reference and no listed name is
\* version-formatted, the incrementer is not run, the publisher is called with
\* exactly Version{} (v0.0.0), and BumpVersion returns an error only if the
\* publisher fails: none when the push succeeds.
C4_Bootstrap ==
    (Listed /\ Len(refList) > 0 /\ ListedVersionNames = {}) =>
        /\ sel.called /\ ~inc.called
        /\ published = <<Version(0, 0, 0)>>
        /\ err = nil <=> Last(calls) = Call("Push", TRUE)
        /\ err = nil =>
              /\ localTags = preLocal \cup {Name_v0_0_0}
              /\ Name_v0_0_0 \in RemoteTagNames(remoteRefs)

\* A bootstrap run that published v0.0.0.
C4_Witness ==
    /\ Listed /\ Len(refList) > 0 /\ ListedVersionNames = {}
    /\ published = <<Version(0, 0, 0)>>
    /\ err = nil

\* C5: when the tag is created, the push fails and the rollback deletion
\* succeeds, the error carries the push failure and not the deletion's, the local
\* tags are those before the call and the remote is unchanged.
C5_RollbackRestores ==
    (PublisherCalled /\
     calls = <<HeadOK, CreateOK, Call("Push", FALSE), Call("DeleteTag", TRUE)>>) =>
        /\ err # nil
        /\ Cause(err) = "PushErr"
        /\ ~Carries(err, "DeleteErr")
        /\ String(published[1]) \notin localTags
        /\ localTags = preLocal
        /\ remoteRefs = preRemote

\* A failed push rolled back, with other tags in the local repository.
C5_Witness ==
    /\ PublisherCalled
    /\ calls = <<HeadOK, CreateOK, Call("Push", FALSE), Call("DeleteTag", TRUE)>>
    /\ preLocal # {}

\* C6: when the push fails and the rollback deletion fails too, the error
\* returned carries both the push failure and the deletion failure.
C6_BothFailuresCarried ==
    (PublisherCalled /\
     calls = <<HeadOK, CreateOK, Call("Push", FALSE), Call("DeleteTag", FALSE)>>) =>
        /\ Carries(err, "PushErr")
        /\ Carries(err, "DeleteErr")

\* C7: when the remote has no tag, whatever other references it lists,
\* BumpVersion fails with ErrNoTagsFound before the selector runs and creates no
\* tag.
C7_NoTagsFound ==
    (Listed /\ ListedTagNames = <<>>) =>
        /\ err # nil
        /\ Cause(err) = "ErrNoTagsFound"
        /\ ~sel.called
        /\ NothingPublished

\* C8: the version that is incremented is the latest among the remote's tags, and
\* the Version published is the one the remote's tags alone lead to: a listed
\* reference that is not a tag changes neither.
C8_SelectorGetsTags ==
    (Listed /\ PublisherCalled) =>
        /\ inc.called => inc.in.v = getLatestVersionTag(ListedTagNames).v
        /\ published[1] =
              IF getLatestVersionTag(ListedTagNames).err = ErrNoVersionTagsFound
              THEN Version(0, 0, 0)
              ELSE incrementVersion(getLatestVersionTag(ListedTagNames).v,
                                    major, minor).v

\* C9: the publisher calls Head, CreateTag, Push in this order; when Head fails
\* or CreateTag fails (the name exists locally, or otherwise) it returns a wrapped
\* error, attempts neither the push nor a deletion, and leaves the local and the
\* remote tags as they were.
C9_NoPushAfterFailure ==
    PublisherCalled =>
        /\ \A i \in 1..Len(calls) :
              /\ calls[i].op = <<"Head", "CreateTag", "Push", "DeleteTag">>[i]
              /\ (i < Len(calls) /\ i < 3) => calls[i].ok
        /\ (\/ ~calls[1].ok
            \/ String(published[1]) \in preLocal
            \/ (Len(calls) >= 2 /\ ~calls[2].ok)) =>
              /\ Len(err) = 2
              /\ Cause(err) \in {"HeadErr", "ErrTagExists", "CreateErr"}
              /\ \A i \in 1..Len(calls) : calls[i].op \notin {"Push", "DeleteTag"}
              /\ localTags = preLocal
              /\ remoteRefs = preRemote

\* The tag to create exists locally already, left there by an earlier run whose
\* push and rollback both failed, and Head succeeded.
C9_Witness ==
    /\ PublisherCalled
    /\ calls[1].ok
    /\ String(published[1]) \in preLocal
    /\ String(published[1]) # Name_v0_0_0

\* C10: the Version a run hands to the publisher is v0.0.0 when the listing has
\* no version-formatted name, and is otherwise strictly greater, by (major,
\* minor, bugfix), than every version-formatted name of the listing.
C10_PublishedIsGreater ==
    (Listed /\ PublisherCalled) =>
        \/ ListedVersionNames = {} /\ published[1] = Version(0, 0, 0)
        \/ /\ ListedVersionNames # {}
           /\ \A n \in ListedVersionNames :
                 TripleLess(Components(n), VersionComponents(published[1]))

====
